---- MODULE Spec2Model ----
(***************************************************************************)
(* sql_data_analysis.py as a state machine: one process run creates the    *)
(* output folder, connects to the SQLite file, drops and recreates the     *)
(* four tables, generates customers, products, orders and order items,     *)
(* inserts and commits them, runs the four analysis queries, saves the     *)
(* four plots and closes the connection.                                   *)
(*                                                                         *)
(* Money is kept in cents.  Dates are the integer YYYYMMDD of the ISO      *)
(* string, whose numeric order is the string order of "YYYY-MM-DD".        *)
(***************************************************************************)
EXTENDS Integers, Sequences, FiniteSets, TLC

VARIABLES
    pc,                 \* position of the script
    conn,               \* "none" | "open" | "closed": the sqlite3 connection
    in_tx,              \* the connection holds an uncommitted transaction
    tables,             \* names of the tables that exist in online_store.db
    Customers,          \* rows of each table, in rowid order
    Products,
    Orders,
    OrderItems,
    sqlite_sequence,    \* AUTOINCREMENT counter kept for OrderItems
    images,             \* files present in sql_analysis_images/
    customers,          \* the script's lists and counters
    orders,
    order_items,
    order_id,
    df_top_customers,   \* the four query results
    df_monthly_sales,
    df_best_products,
    df_customer_segmentation,
    rng_tape,           \* values the np.random stream of the current seed has produced
    rng_pos,            \* index of the next value the process draws from that stream
    prev_run            \* tables left by the completed run whose seed is being reused

vars == <<pc, conn, in_tx, tables, Customers, Products, Orders, OrderItems,
          sqlite_sequence, images, customers, orders, order_items, order_id,
          df_top_customers, df_monthly_sales, df_best_products,
          df_customer_segmentation, rng_tape, rng_pos, prev_run>>

store == <<tables, Customers, Products, Orders, OrderItems, sqlite_sequence>>
memory == <<customers, orders, order_items, order_id>>
frames == <<df_top_customers, df_monthly_sales, df_best_products,
            df_customer_segmentation>>
rng == <<rng_tape, rng_pos>>

----------------------------------------------------------------------------
(* Bounds: the script's counts, scaled down.                               *)

\* num_customers = 200 in the script
num_customers == 2
\* num_orders = 1000 in the script
num_orders == 2
\* LIMIT 10 in the three ranked queries
Limit == 2

(* Program constants.                                                      *)
DayWindow == 730
MaxItems == 5
MaxQuantity == 3

(* The values of the random stream the model enumerates, each a subset of  *)
(* the range the script draws from.                                        *)
DaySamples == {424}
ItemCountSamples == {1, 2}
ProductIndexSamples == {0, 9}
QuantitySamples == {2}

TableNames == {"OrderItems", "Orders", "Products", "Customers"}

ImageNames == {"monthly_sales_trend.png", "best_selling_products.png",
               "top_customers_spending.png", "customer_segmentation.png"}

\* the catalog, prices in cents
products == <<
    [product_id |-> 1,  name |-> "Smartphone",   category |-> "Electronics",    price |-> 69999],
    [product_id |-> 2,  name |-> "Laptop",       category |-> "Electronics",    price |-> 119999],
    [product_id |-> 3,  name |-> "Tablet",       category |-> "Electronics",    price |-> 49999],
    [product_id |-> 4,  name |-> "Headphones",   category |-> "Electronics",    price |-> 19999],
    [product_id |-> 5,  name |-> "Jeans",        category |-> "Fashion",        price |-> 4999],
    [product_id |-> 6,  name |-> "T-Shirt",      category |-> "Fashion",        price |-> 1999],
    [product_id |-> 7,  name |-> "Sneakers",     category |-> "Fashion",        price |-> 8999],
    [product_id |-> 8,  name |-> "Coffee Maker", category |-> "Home & Kitchen", price |-> 7999],
    [product_id |-> 9,  name |-> "Blender",      category |-> "Home & Kitchen", price |-> 5999],
    [product_id |-> 10, name |-> "Book",         category |-> "Books",          price |-> 1499] >>

----------------------------------------------------------------------------
(* Helpers.                                                                *)

RECURSIVE SumSeq(_)
SumSeq(s) == IF s = <<>> THEN 0 ELSE s[1] + SumSeq(Tail(s))

RECURSIVE SumSet(_, _)
\* sum of f[x] over the finite set S
SumSet(S, f) ==
    IF S = {} THEN 0
    ELSE LET x == CHOOSE y \in S : TRUE IN f[x] + SumSet(S \ {x}, f)

RECURSIVE Concat(_)
Concat(ss) == IF ss = <<>> THEN <<>> ELSE ss[1] \o Concat(Tail(ss))

\* days in each month of 2021 and of 2022 (neither is a leap year)
MonthLengths == <<31, 28, 31, 30, 31, 30, 31, 31, 30, 31, 30, 31>>

RECURSIVE MonthOf(_, _)
\* the <<month, day>> of the 0-based day of the year doy, counting from month m
MonthOf(doy, m) ==
    IF doy < MonthLengths[m] THEN <<m, doy + 1>>
    ELSE MonthOf(doy - MonthLengths[m], m + 1)

\* (datetime.date(2021,1,1) + datetime.timedelta(days=n)).isoformat()
IsoDate(n) ==
    LET y  == 2021 + (n \div 365)
        md == MonthOf(n % 365, 1)
    IN  y * 10000 + md[1] * 100 + md[2]

\* mutant of StrftimeYm: strftime('%m', order_date), the month without its year
StrftimeYm_MonthOnly(date) == (date \div 100) % 100

\* strftime('%Y-%m', order_date): the first seven characters, YYYY-MM
StrftimeYm(date) == date \div 100

----------------------------------------------------------------------------
(* The random stream.  np.random is the process-wide generator: the values *)
(* it returns are a function of its seed and of the number of values drawn *)
(* so far.  rng_tape records the values the current seed has produced; a   *)
(* process that starts with the same seed reads them back in order.        *)

\* np.random.randint(lo, hi): an integer of lo .. hi-1
Randint(lo, hi) == lo .. (hi - 1)

\* mutant of Drawn: the generator is reseeded from the clock, whatever the seed
Drawn_Reseeded(p, S) == S

\* the values the draw at stream index p can return, for a call with the range S
Drawn(p, S) == IF p <= Len(rng_tape) THEN {rng_tape[p]} ELSE S

\* the stream after the process has drawn the values ds from index rng_pos on
TapeAfter(ds) ==
    LET known == Len(rng_tape) - rng_pos + 1
    IN  IF known >= Len(ds) THEN rng_tape
        ELSE rng_tape \o SubSeq(ds, known + 1, Len(ds))

\* ds is what the stream yields from index rng_pos on, given the range of each call
Yields(ds, ranges) ==
    /\ Len(ds) = Len(ranges)
    /\ \A k \in 1..Len(ds) : ds[k] \in Drawn(rng_pos + k - 1, ranges[k])

----------------------------------------------------------------------------
(* Synthetic data.                                                         *)

\* np.random.randint(0, 730), line 107 and line 133
day_draws == Randint(0, DayWindow) \cap DaySamples
\* mutant of customer_id_draws: the lower end is 0, as for the product index
customer_id_draws_FromZero == Randint(0, num_customers + 1)

\* np.random.randint(1, num_customers+1)
customer_id_draws == Randint(1, num_customers + 1)
\* np.random.randint(1,6)
num_items_draws == Randint(1, MaxItems + 1) \cap ItemCountSamples
\* np.random.randint(0, len(products))
product_index_draws == Randint(0, Len(products)) \cap ProductIndexSamples
\* np.random.randint(1,4)
quantity_draws == Randint(1, MaxQuantity + 1) \cap QuantitySamples

\* the tuple appended to customers for loop index i and the drawn day
CustomerTuple(i, day) ==
    [customer_id |-> i, name |-> <<"Customer ", i>>,
     email |-> <<"customer", i, "@example.com">>,
     registration_date |-> IsoDate(day)]

\* the error, in 1/100 cent, the float sum of at most five products can carry
FloatError == {-1, 0, 1}

\* mutant of Round2: the cents are cut off, as int(x * 100) / 100 would
Round2_Truncates(x) == x \div 100

\* round(x, 2) of a float x given in 1/100 cent: the nearest cent
Round2(x) == (x + 50) \div 100

\* the tuple appended to items: products[idx] unpacked, with the drawn quantity
ItemTuple(oid, idx, quantity) ==
    LET prod == products[idx + 1]
    IN  [order_id |-> oid, product_id |-> prod.product_id,
         quantity |-> quantity, unit_price |-> prod.price]

\* total_amount after the inner loop: the float sum of price * quantity, in 1/100 cent
TotalAmount(items, err) ==
    100 * SumSeq([k \in 1..Len(items) |-> items[k].unit_price * items[k].quantity]) + err

\* the tuple appended to orders
OrderTuple(oid, cid, day, items, err) ==
    [order_id |-> oid, customer_id |-> cid, order_date |-> IsoDate(day),
     total_amount |-> Round2(TotalAmount(items, err))]

----------------------------------------------------------------------------
(* The store.                                                              *)

\* DROP TABLE IF EXISTS for each of the four names
TablesAfterDrop == tables \ TableNames

\* AUTOINCREMENT: the largest rowid the table holds or has ever held
LastRowid ==
    LET top == IF OrderItems = <<>> THEN 0 ELSE OrderItems[Len(OrderItems)].order_item_id
    IN  IF top > sqlite_sequence THEN top ELSE sqlite_sequence

\* sqlite_sequence once the four tables are dropped
SequenceAfterDrop == 0

\* the rows executemany adds to OrderItems for the list items, the table's
\* last rowid being last
OrderItemRows(last, items) ==
    [k \in 1..Len(items) |->
        [order_item_id |-> last + k, order_id |-> items[k].order_id,
         product_id |-> items[k].product_id, quantity |-> items[k].quantity,
         unit_price |-> items[k].unit_price]]

\* INTEGER PRIMARY KEY: the keys of rows are new to the table and distinct
KeysFree(table, rows, key) ==
    /\ \A a \in 1..Len(rows) : \A b \in 1..Len(table) : rows[a][key] # table[b][key]
    /\ \A a, b \in 1..Len(rows) : a # b => rows[a][key] # rows[b][key]

----------------------------------------------------------------------------
(* The four queries, over the committed tables.                            *)

Min(a, b) == IF a <= b THEN a ELSE b

\* the orderings of the rows S an ORDER BY may return, key[r] being the sort
\* key of row r, ascending: every row once, and no row after one of a larger
\* key.  Rows of equal key come in any order: SQL leaves it to the engine.
OrderedBy(S, key) ==
    LET n == Cardinality(S)
    IN  {s \in [1..n -> S] :
            /\ \A x \in S : \E k \in 1..n : s[k] = x
            /\ \A a, b \in 1..n : a < b => key[s[a]] <= key[s[b]]}

\* LIMIT n
Take(s, n) == SubSeq(s, 1, Min(n, Len(s)))

\* FROM Customers c JOIN Orders o ON c.customer_id = o.customer_id
JoinCustomersOrders ==
    {p \in (1..Len(Customers)) \X (1..Len(Orders)) :
        Customers[p[1]].customer_id = Orders[p[2]].customer_id}

\* GROUP BY c.customer_id, c.name
CustomerGroupKey(p) == <<Customers[p[1]].customer_id, Customers[p[1]].name>>
CustomerGroups == {CustomerGroupKey(p) : p \in JoinCustomersOrders}
CustomerGroup(g) == {p \in JoinCustomersOrders : CustomerGroupKey(p) = g}

JoinedAmount == [p \in JoinCustomersOrders |-> Orders[p[2]].total_amount]

\* the CTE CustomerSpending: SUM(o.total_amount) AS total_spent
CustomerSpending ==
    {[customer_id |-> g[1], name |-> g[2],
      total_spent |-> SumSet(CustomerGroup(g), JoinedAmount)] : g \in CustomerGroups}

\* mutant of SpentDesc: ORDER BY total_spent, ascending
SpentDesc_Ascending == [r \in CustomerSpending |-> r.total_spent]

\* ORDER BY total_spent DESC: descending is ascending in the negated key
SpentDesc == [r \in CustomerSpending |-> 0 - r.total_spent]

\* query_top_customers
TopCustomers == {Take(s, Limit) : s \in OrderedBy(CustomerSpending, SpentDesc)}

\* GROUP BY order_month
OrderMonths == {StrftimeYm(Orders[k].order_date) : k \in 1..Len(Orders)}
OrdersInMonth(m) == {k \in 1..Len(Orders) : StrftimeYm(Orders[k].order_date) = m}
OrderAmount == [k \in 1..Len(Orders) |-> Orders[k].total_amount]

\* SELECT order_month, SUM(total_amount) AS monthly_sales ... GROUP BY order_month
MonthlyRows ==
    {[order_month |-> m, monthly_sales |-> SumSet(OrdersInMonth(m), OrderAmount)]
        : m \in OrderMonths}

\* ORDER BY order_month
MonthAsc == [r \in MonthlyRows |-> r.order_month]

\* query_monthly_sales
MonthlySales == OrderedBy(MonthlyRows, MonthAsc)

\* FROM OrderItems oi JOIN Products p ON oi.product_id = p.product_id
JoinItemsProducts ==
    {p \in (1..Len(OrderItems)) \X (1..Len(Products)) :
        OrderItems[p[1]].product_id = Products[p[2]].product_id}

\* GROUP BY p.name, p.category
ProductGroupKey(p) == <<Products[p[2]].name, Products[p[2]].category>>
ProductGroups == {ProductGroupKey(p) : p \in JoinItemsProducts}
ProductGroup(g) == {p \in JoinItemsProducts : ProductGroupKey(p) = g}

\* mutant of JoinedQuantity: COUNT(*) in place of SUM(oi.quantity)
JoinedQuantity_Count == [p \in JoinItemsProducts |-> 1]

\* oi.quantity of each joined row
JoinedQuantity == [p \in JoinItemsProducts |-> OrderItems[p[1]].quantity]

\* SELECT p.name, p.category, SUM(oi.quantity) AS total_quantity ... GROUP BY
ProductRows ==
    {[name |-> g[1], category |-> g[2],
      total_quantity |-> SumSet(ProductGroup(g), JoinedQuantity)] : g \in ProductGroups}

\* ORDER BY total_quantity DESC
QuantityDesc == [r \in ProductRows |-> 0 - r.total_quantity]

\* query_best_products
BestProducts == {Take(s, Limit) : s \in OrderedBy(ProductRows, QuantityDesc)}

\* mutant of Avg: SUM(o.total_amount) in place of AVG
Avg_Sum(S, f) == <<SumSet(S, f), 1>>

\* AVG(o.total_amount), kept exact as <<sum, count>>
Avg(S, f) == <<SumSet(S, f), Cardinality(S)>>
AvgGreater(x, y) == x[1] * y[2] > y[1] * x[2]

\* the CTE CustomerOrders
CustomerOrders ==
    {[customer_id |-> g[1], name |-> g[2],
      avg_order_value |-> Avg(CustomerGroup(g), JoinedAmount)] : g \in CustomerGroups}

\* RANK() OVER (ORDER BY avg_order_value DESC)
Rank(r, S) == 1 + Cardinality({x \in S : AvgGreater(x.avg_order_value, r.avg_order_value)})

\* SELECT customer_id, name, avg_order_value, RANK() ... AS spending_rank
RankedCustomers ==
    {[customer_id |-> r.customer_id, name |-> r.name,
      avg_order_value |-> r.avg_order_value,
      spending_rank |-> Rank(r, CustomerOrders)] : r \in CustomerOrders}

\* ORDER BY spending_rank
RankAsc == [r \in RankedCustomers |-> r.spending_rank]

\* query_customer_segmentation
CustomerSegmentation == {Take(s, Limit) : s \in OrderedBy(RankedCustomers, RankAsc)}

----------------------------------------------------------------------------
(* The script, statement by statement.                                     *)

NoRun == [reused |-> FALSE, Customers |-> <<>>, Orders |-> <<>>, OrderItems |-> <<>>]

\* a process that has not run a statement yet
FreshMemory ==
    /\ customers = <<>> /\ orders = <<>> /\ order_items = <<>> /\ order_id = 1
    /\ df_top_customers = <<>> /\ df_monthly_sales = <<>>
    /\ df_best_products = <<>> /\ df_customer_segmentation = <<>>

\* online_store.db before the first run: no file, or tables holding rows the
\* script did not write
NoStore ==
    [tables |-> {}, Customers |-> <<>>, Products |-> <<>>, Orders |-> <<>>,
     OrderItems |-> <<>>, sqlite_sequence |-> 0]
StaleStore ==
    [tables |-> TableNames,
     Customers |-> <<CustomerTuple(1, 0), CustomerTuple(7, 0), CustomerTuple(9, 0)>>,
     Products |-> <<[product_id |-> 1, name |-> "Smartphone",
                     category |-> "Electronics", price |-> 59999]>>,
     Orders |-> <<[order_id |-> 3, customer_id |-> 7, order_date |-> IsoDate(0),
                   total_amount |-> 59999]>>,
     OrderItems |-> <<[order_item_id |-> 8, order_id |-> 3, product_id |-> 1,
                       quantity |-> 1, unit_price |-> 59999]>>,
     sqlite_sequence |-> 8]

Init ==
    /\ pc = "start" /\ conn = "none" /\ in_tx = FALSE
    /\ \E file \in {NoStore, StaleStore} :
        /\ tables = file.tables /\ Customers = file.Customers
        /\ Products = file.Products /\ Orders = file.Orders
        /\ OrderItems = file.OrderItems /\ sqlite_sequence = file.sqlite_sequence
    /\ images \in {{}, {"monthly_sales_trend.png"}}
    /\ FreshMemory
    /\ rng_tape = <<>> /\ rng_pos = 1 /\ prev_run = NoRun

\* lines 36-46: the output folder, sqlite3.connect, conn.cursor
Setup ==
    /\ pc = "start"
    /\ conn' = "open"
    /\ pc' = "drop"
    /\ UNCHANGED <<in_tx, store, images, memory, frames, rng, prev_run>>

\* lines 48-51: DROP TABLE IF EXISTS, outside any transaction
DropTables ==
    /\ pc = "drop"
    /\ tables' = TablesAfterDrop
    /\ Customers' = <<>> /\ Products' = <<>> /\ Orders' = <<>> /\ OrderItems' = <<>>
    /\ sqlite_sequence' = SequenceAfterDrop
    /\ pc' = "create"
    /\ UNCHANGED <<conn, in_tx, images, memory, frames, rng, prev_run>>

\* lines 56-95: the four CREATE TABLE statements; each raises when its table exists
CreateTables ==
    /\ pc = "create"
    /\ tables \cap TableNames = {}
    /\ tables' = tables \cup TableNames
    /\ pc' = "customers"
    /\ UNCHANGED <<conn, in_tx, Customers, Products, Orders, OrderItems,
                   sqlite_sequence, images, memory, frames, rng, prev_run>>

\* mutant of CustomerLoopRuns: range(1, num_customers) stops one customer short
CustomerLoopRuns_StopsShort == Len(customers) < num_customers - 1

\* for i in range(1, num_customers+1) has iterations left
CustomerLoopRuns == Len(customers) < num_customers

\* lines 104-108: one iteration of the customer loop
GenerateCustomer ==
    /\ pc = "customers"
    /\ CustomerLoopRuns
    /\ \E day \in Drawn(rng_pos, day_draws) :
        /\ customers' = Append(customers, CustomerTuple(Len(customers) + 1, day))
        /\ rng_tape' = TapeAfter(<<day>>)
        /\ rng_pos' = rng_pos + 1
    /\ UNCHANGED <<pc, conn, in_tx, store, images, orders, order_items, order_id,
                   frames, prev_run>>

\* line 109: executemany into Customers; the INSERT opens a transaction
InsertCustomers ==
    /\ pc = "customers"
    /\ ~CustomerLoopRuns
    /\ "Customers" \in tables
    /\ KeysFree(Customers, customers, "customer_id")
    /\ Customers' = Customers \o customers
    /\ in_tx' = TRUE
    /\ pc' = "products"
    /\ UNCHANGED <<conn, tables, Products, Orders, OrderItems, sqlite_sequence,
                   images, memory, frames, rng, prev_run>>

\* lines 112-130: executemany into Products; the order lists and order_id start
InsertProducts ==
    /\ pc = "products"
    /\ "Products" \in tables
    /\ KeysFree(Products, products, "product_id")
    /\ Products' = Products \o products
    /\ orders' = <<>> /\ order_items' = <<>> /\ order_id' = 1
    /\ pc' = "orders"
    /\ UNCHANGED <<conn, in_tx, tables, Customers, Orders, OrderItems, sqlite_sequence,
                   images, customers, frames, rng, prev_run>>

\* for i in range(num_orders) has iterations left
OrderLoopRuns == Len(orders) < num_orders

\* the values one order draws, in the order the script draws them; picks holds
\* the <<product index, quantity>> of each item
OrderDraws(customer_id, day, picks) == <<customer_id, day, Len(picks)>> \o Concat(picks)

\* items after the inner loop
OrderItemsOf(oid, picks) ==
    [k \in 1..Len(picks) |-> ItemTuple(oid, picks[k][1], picks[k][2])]

\* the ranges of the draws of one order with n items, in the order the script draws
OrderDrawRanges(n) ==
    <<customer_id_draws, day_draws, num_items_draws>>
        \o Concat([k \in 1..n |-> <<product_index_draws, quantity_draws>>])

\* lines 132-146: one iteration of the order loop, its inner loop included
GenerateOrder ==
    /\ pc = "orders"
    /\ OrderLoopRuns
    /\ \E customer_id \in Drawn(rng_pos, customer_id_draws),
          day \in Drawn(rng_pos + 1, day_draws),
          num_items \in Drawn(rng_pos + 2, num_items_draws) :
       \E picks \in [1..num_items -> product_index_draws \X quantity_draws],
          err \in FloatError :
        LET ds == OrderDraws(customer_id, day, picks)
            items == OrderItemsOf(order_id, picks)
        IN  /\ Yields(ds, OrderDrawRanges(num_items))
            /\ orders' = Append(orders, OrderTuple(order_id, customer_id, day, items, err))
            /\ order_items' = order_items \o items
            /\ order_id' = order_id + 1
            /\ rng_tape' = TapeAfter(ds)
            /\ rng_pos' = rng_pos + Len(ds)
    /\ UNCHANGED <<pc, conn, in_tx, store, images, customers, frames, prev_run>>

\* lines 148-150: executemany into Orders and OrderItems, then conn.commit()
InsertOrders ==
    /\ pc = "orders"
    /\ ~OrderLoopRuns
    /\ {"Orders", "OrderItems"} \subseteq tables
    /\ KeysFree(Orders, orders, "order_id")
    /\ Orders' = Orders \o orders
    /\ OrderItems' = OrderItems \o OrderItemRows(LastRowid, order_items)
    /\ sqlite_sequence' = IF order_items = <<>> THEN sqlite_sequence
                          ELSE LastRowid + Len(order_items)
    /\ in_tx' = FALSE
    /\ pc' = "query1"
    /\ UNCHANGED <<conn, tables, Customers, Products, images, memory, frames, rng, prev_run>>

\* line 168
QueryTopCustomers ==
    /\ pc = "query1"
    /\ df_top_customers' \in TopCustomers
    /\ pc' = "query2"
    /\ UNCHANGED <<conn, in_tx, store, images, memory, df_monthly_sales,
                   df_best_products, df_customer_segmentation, rng, prev_run>>

\* line 179
QueryMonthlySales ==
    /\ pc = "query2"
    /\ df_monthly_sales' \in MonthlySales
    /\ pc' = "query3"
    /\ UNCHANGED <<conn, in_tx, store, images, memory, df_top_customers,
                   df_best_products, df_customer_segmentation, rng, prev_run>>

\* line 192
QueryBestProducts ==
    /\ pc = "query3"
    /\ df_best_products' \in BestProducts
    /\ pc' = "query4"
    /\ UNCHANGED <<conn, in_tx, store, images, memory, df_top_customers,
                   df_monthly_sales, df_customer_segmentation, rng, prev_run>>

\* line 210
QueryCustomerSegmentation ==
    /\ pc = "query4"
    /\ df_customer_segmentation' \in CustomerSegmentation
    /\ pc' = "plot1"
    /\ UNCHANGED <<conn, in_tx, store, images, memory, df_top_customers,
                   df_monthly_sales, df_best_products, rng, prev_run>>

\* the file each plot section saves, and the section that follows it
PlotFile == [plot1 |-> "monthly_sales_trend.png", plot2 |-> "best_selling_products.png",
             plot3 |-> "top_customers_spending.png", plot4 |-> "customer_segmentation.png"]
PlotNext == [plot1 |-> "plot2", plot2 |-> "plot3", plot3 |-> "plot4", plot4 |-> "close"]

\* lines 218-265: one plot section, ending in plt.savefig
SavePlot ==
    /\ pc \in DOMAIN PlotFile
    /\ images' = images \cup {PlotFile[pc]}
    /\ pc' = PlotNext[pc]
    /\ UNCHANGED <<conn, in_tx, store, memory, frames, rng, prev_run>>

\* line 268: conn.close(), then the closing prints
Close ==
    /\ pc = "close"
    /\ conn' = "closed"
    /\ pc' = "done"
    /\ UNCHANGED <<in_tx, store, images, memory, frames, rng, prev_run>>

\* the positions at which a statement runs on the open connection or writes a file
Running == {"drop", "create", "customers", "products", "orders",
            "query1", "query2", "query3", "query4",
            "plot1", "plot2", "plot3", "plot4", "close"}

\* A statement raises (the store cannot be written, savefig cannot write the
\* file, ...): the traceback ends the process.  No handler closes the
\* connection; the uncommitted inserts, which began on empty tables, are lost.
Raise ==
    /\ pc \in Running
    /\ pc' = "aborted"
    /\ in_tx' = FALSE
    /\ IF in_tx
         THEN Customers' = <<>> /\ Products' = <<>> /\ Orders' = <<>>
              /\ OrderItems' = <<>> /\ sqlite_sequence' = 0
         ELSE UNCHANGED <<Customers, Products, Orders, OrderItems, sqlite_sequence>>
    /\ customers' = <<>> /\ orders' = <<>> /\ order_items' = <<>> /\ order_id' = 1
    /\ df_top_customers' = <<>> /\ df_monthly_sales' = <<>>
    /\ df_best_products' = <<>> /\ df_customer_segmentation' = <<>>
    /\ rng_tape' = <<>> /\ rng_pos' = 1 /\ prev_run' = NoRun
    /\ UNCHANGED <<conn, tables, images>>

\* the script is started again, on the store file and folder the last run left,
\* with a seed of its own
Rerun ==
    /\ pc = "done"
    /\ pc' = "start" /\ conn' = "none"
    /\ customers' = <<>> /\ orders' = <<>> /\ order_items' = <<>> /\ order_id' = 1
    /\ df_top_customers' = <<>> /\ df_monthly_sales' = <<>>
    /\ df_best_products' = <<>> /\ df_customer_segmentation' = <<>>
    /\ rng_tape' = <<>> /\ rng_pos' = 1 /\ prev_run' = NoRun
    /\ UNCHANGED <<in_tx, store, images>>

\* the script is started again after a completed run, with that run's seed
RerunSameSeed ==
    /\ pc = "done"
    /\ pc' = "start" /\ conn' = "none"
    /\ customers' = <<>> /\ orders' = <<>> /\ order_items' = <<>> /\ order_id' = 1
    /\ df_top_customers' = <<>> /\ df_monthly_sales' = <<>>
    /\ df_best_products' = <<>> /\ df_customer_segmentation' = <<>>
    /\ rng_pos' = 1
    /\ prev_run' = [reused |-> TRUE, Customers |-> Customers, Orders |-> Orders,
                    OrderItems |-> OrderItems]
    /\ UNCHANGED <<in_tx, store, images, rng_tape>>

Next ==
    \/ Setup \/ DropTables \/ CreateTables
    \/ GenerateCustomer \/ InsertCustomers \/ InsertProducts
    \/ GenerateOrder \/ InsertOrders
    \/ QueryTopCustomers \/ QueryMonthlySales \/ QueryBestProducts
    \/ QueryCustomerSegmentation
    \/ SavePlot \/ Close \/ Raise \/ Rerun \/ RerunSameSeed

Spec == Init /\ [][Next]_vars

----------------------------------------------------------------------------
(* The queries alone, on committed stores the generator can leave.  Each   *)
(* order is one of a few sample orders, given to any customer.             *)

\* customers and orders of the stores the queries are checked on
query_customers == 3
query_orders == 3

\* sample orders: the day drawn, and the <<product index, quantity>> of each item
QueryShapes ==
    { [day |-> 31,  picks |-> << <<9, 2>> >>],
      [day |-> 58,  picks |-> << <<9, 1>>, <<5, 1>> >>],
      [day |-> 365, picks |-> << <<5, 3>>, <<0, 1>> >>] }

InitQuery ==
    \E f \in [1..query_orders -> (1..query_customers) \X QueryShapes] :
        LET items(k) == OrderItemsOf(k, f[k][2].picks)
            all_items == Concat([k \in 1..query_orders |-> items(k)])
        IN  /\ customers = [i \in 1..query_customers |-> CustomerTuple(i, 0)]
            /\ orders = [k \in 1..query_orders |->
                            OrderTuple(k, f[k][1], f[k][2].day, items(k), 0)]
            /\ order_items = all_items
            /\ order_id = query_orders + 1
            /\ rng_tape = [i \in 1..query_customers |-> 0]
                  \o Concat([k \in 1..query_orders |->
                                OrderDraws(f[k][1], f[k][2].day, f[k][2].picks)])
            /\ rng_pos = Len(rng_tape) + 1
            /\ tables = TableNames
            /\ Customers = customers /\ Products = products /\ Orders = orders
            /\ OrderItems = OrderItemRows(0, all_items)
            /\ sqlite_sequence = Len(all_items)
            /\ pc = "query1" /\ conn = "open" /\ in_tx = FALSE /\ images = {}
            /\ df_top_customers = <<>> /\ df_monthly_sales = <<>>
            /\ df_best_products = <<>> /\ df_customer_segmentation = <<>>
            /\ prev_run = NoRun

NextQuery ==
    \/ QueryTopCustomers \/ QueryMonthlySales \/ QueryBestProducts
    \/ QueryCustomerSegmentation

SpecQuery == InitQuery /\ [][NextQuery]_vars

----------------------------------------------------------------------------
(* Properties.                                                             *)

\* the positions at which the committed tables hold the generated data
Loaded == {"query1", "query2", "query3", "query4",
           "plot1", "plot2", "plot3", "plot4", "close", "done"}
\* the positions at which each query result is in place
AfterQuery1 == Loaded \ {"query1"}
AfterQuery2 == AfterQuery1 \ {"query2"}
AfterQuery3 == AfterQuery2 \ {"query3"}
AfterQuery4 == AfterQuery3 \ {"query4"}

\* quantity x unit_price summed over the rows of items that carry order_id oid
LineTotal(items, oid) ==
    LET mine == SelectSeq(items, LAMBDA r : r.order_id = oid)
    IN  SumSeq([k \in 1..Len(mine) |-> mine[k].quantity * mine[k].unit_price])

\* the customers that placed an order, and what each spent
Buyers == {Orders[k].customer_id : k \in 1..Len(Orders)}
OrdersBy(cid) == SelectSeq(Orders, LAMBDA o : o.customer_id = cid)
SpentBy(cid) == SumSeq([k \in 1..Len(OrdersBy(cid)) |-> OrdersBy(cid)[k].total_amount])

\* C1: every generated order's total_amount, in the script's list and in the
\* committed table, is the sum in cents of quantity x unit_price over exactly
\* the order items that carry its order_id.
C1_TotalMatchesItems ==
    /\ \A k \in 1..Len(orders) :
          orders[k].total_amount = LineTotal(order_items, orders[k].order_id)
    /\ pc \in Loaded =>
          \A k \in 1..Len(Orders) :
              Orders[k].total_amount = LineTotal(OrderItems, Orders[k].order_id)

\* C1 witness: the committed data hold an order of two different items and
\* another order with items of its own.
C1_Witness ==
    /\ pc = "query1"
    /\ \E a, b \in 1..Len(OrderItems) :
          /\ a # b /\ OrderItems[a].order_id = OrderItems[b].order_id
          /\ OrderItems[a].product_id # OrderItems[b].product_id
    /\ \E a, b \in 1..Len(OrderItems) : OrderItems[a].order_id # OrderItems[b].order_id
    /\ \A k \in 1..Len(Orders) : Orders[k].total_amount > 0

\* C2: once the data are inserted, every Orders.customer_id is the id of a
\* Customers row, every OrderItems.order_id the id of an Orders row and every
\* OrderItems.product_id the id of a Products row.
C2_ReferentialIntegrity ==
    pc \in Loaded =>
        /\ \A k \in 1..Len(Orders) :
              \E c \in 1..Len(Customers) : Customers[c].customer_id = Orders[k].customer_id
        /\ \A k \in 1..Len(OrderItems) :
              /\ \E o \in 1..Len(Orders) : Orders[o].order_id = OrderItems[k].order_id
              /\ \E q \in 1..Len(Products) : Products[q].product_id = OrderItems[k].product_id

\* C2 witness: a completed run whose orders name both customers and whose
\* items name the first and the last product of the catalog.
C2_Witness ==
    /\ pc = "done"
    /\ Buyers = 1..num_customers
    /\ {1, 10} \subseteq {OrderItems[k].product_id : k \in 1..Len(OrderItems)}

\* C3: when a run completes, whatever the store held before it, the store
\* holds num_customers Customers rows, the 10 Products rows, num_orders Orders
\* rows and between num_orders and MaxItems x num_orders OrderItems rows, and
\* the four image files are in the output folder.
C3_FullReset ==
    pc = "done" =>
        /\ Len(Customers) = num_customers
        /\ Len(Products) = 10
        /\ Len(Orders) = num_orders
        /\ Len(OrderItems) >= num_orders
        /\ Len(OrderItems) <= MaxItems * num_orders
        /\ images = ImageNames /\ Cardinality(images) = 4

\* C3 witness: a run completes on a store that held the rows of an earlier run.
C3_Witness ==
    /\ pc = "done"
    /\ prev_run.reused
    /\ prev_run.Orders # <<>> /\ prev_run.OrderItems # <<>>

\* C9, as claimed: a run that has ended, completed or aborted, has closed its connection.
C9_ClosedOnEveryExit == pc \in {"done", "aborted"} => conn = "closed"

ResultIds(df) == {df[a].customer_id : a \in 1..Len(df)}

\* C4: the Top-N Spenders result has at most Limit rows, one per customer; each
\* row's customer has an order and total_spent is the sum of total_amount over
\* that customer's orders; the rows are in non-increasing order of total_spent;
\* and no customer left out spent strictly more than one in the result.
C4_TopSpenders ==
    pc \in AfterQuery1 =>
        LET df == df_top_customers
        IN  /\ Len(df) <= Limit
            /\ \A a, b \in 1..Len(df) : a # b => df[a].customer_id # df[b].customer_id
            /\ \A a \in 1..Len(df) :
                  /\ df[a].customer_id \in Buyers
                  /\ df[a].total_spent = SpentBy(df[a].customer_id)
            /\ \A a, b \in 1..Len(df) : a < b => df[a].total_spent >= df[b].total_spent
            /\ \A c \in Buyers \ ResultIds(df) :
                  \A a \in 1..Len(df) : SpentBy(c) <= df[a].total_spent

\* C4 witness: more customers ordered than the result holds, the result is
\* full, its rows differ in total_spent, and the customer left out spent less.
C4_Witness ==
    /\ pc = "query2"
    /\ Cardinality(Buyers) > Limit
    /\ Len(df_top_customers) = Limit
    /\ df_top_customers[1].total_spent > df_top_customers[Limit].total_spent
    /\ \E c \in Buyers \ ResultIds(df_top_customers) :
          SpentBy(c) < df_top_customers[Limit].total_spent

\* the <<year, month>> of an ISO date, and of a result row's "YYYY-MM"
CalendarMonth(date) == <<date \div 10000, (date \div 100) % 100>>
RowMonth(r) == <<r.order_month \div 100, r.order_month % 100>>
MonthBefore(x, y) == x[1] < y[1] \/ (x[1] = y[1] /\ x[2] < y[2])
SalesIn(ym) ==
    LET mine == SelectSeq(Orders, LAMBDA o : CalendarMonth(o.order_date) = ym)
    IN  SumSeq([k \in 1..Len(mine) |-> mine[k].total_amount])

\* C5: the Monthly Sales Trend result has exactly one row for each calendar
\* month in which an order is dated and none for any other month, each row's
\* monthly_sales is the sum of total_amount of the orders of that month, and
\* the rows are in strictly increasing month order.
C5_MonthlySales ==
    pc \in AfterQuery2 =>
        LET df == df_monthly_sales
        IN  /\ {RowMonth(df[a]) : a \in 1..Len(df)}
                  = {CalendarMonth(Orders[k].order_date) : k \in 1..Len(Orders)}
            /\ \A a \in 1..Len(df) : df[a].monthly_sales = SalesIn(RowMonth(df[a]))
            /\ \A a, b \in 1..Len(df) : a < b => MonthBefore(RowMonth(df[a]), RowMonth(df[b]))

\* C5 witness: two orders of different days share a month, and a month of the
\* next year with a smaller month number follows it.
C5_Witness ==
    /\ pc = "query3"
    /\ Len(df_monthly_sales) = 2
    /\ RowMonth(df_monthly_sales[1])[1] < RowMonth(df_monthly_sales[2])[1]
    /\ RowMonth(df_monthly_sales[1])[2] > RowMonth(df_monthly_sales[2])[2]
    /\ \E a, b \in 1..Len(Orders) :
          /\ Orders[a].order_date # Orders[b].order_date
          /\ CalendarMonth(Orders[a].order_date) = CalendarMonth(Orders[b].order_date)

\* the name of the product an order item references, and the quantity sold under a name
NameOf(pid) == Products[CHOOSE q \in 1..Len(Products) : Products[q].product_id = pid].name
SoldNames == {NameOf(OrderItems[k].product_id) : k \in 1..Len(OrderItems)}
QuantitySold(name) ==
    LET mine == SelectSeq(OrderItems, LAMBDA r : NameOf(r.product_id) = name)
    IN  SumSeq([k \in 1..Len(mine) |-> mine[k].quantity])

\* C6: the Best-Selling Products result has at most Limit rows, one per
\* product; each row's total_quantity is the sum of quantity over the order
\* items that reference the product; the rows are in non-increasing order of
\* total_quantity.
C6_BestProducts ==
    pc \in AfterQuery3 =>
        LET df == df_best_products
        IN  /\ Len(df) <= Limit
            /\ \A a, b \in 1..Len(df) : a # b => df[a].name # df[b].name
            /\ \A a \in 1..Len(df) :
                  /\ df[a].name \in SoldNames
                  /\ df[a].total_quantity = QuantitySold(df[a].name)
            /\ \A a, b \in 1..Len(df) : a < b => df[a].total_quantity >= df[b].total_quantity

\* C6 witness: two products sold in different quantities, the first through
\* several order items of quantity above one.
C6_Witness ==
    /\ pc = "query4"
    /\ Len(df_best_products) = 2
    /\ df_best_products[1].total_quantity > df_best_products[2].total_quantity
    /\ Cardinality({k \in 1..Len(OrderItems) :
                       NameOf(OrderItems[k].product_id) = df_best_products[1].name}) >= 2
    /\ df_best_products[1].total_quantity >
          Cardinality({k \in 1..Len(OrderItems) :
                          NameOf(OrderItems[k].product_id) = df_best_products[1].name})

\* customer c's mean order total is strictly greater than customer d's
MeanGreater(c, d) == SpentBy(c) * Len(OrdersBy(d)) > SpentBy(d) * Len(OrdersBy(c))
\* 1 plus the number of customers with a strictly greater mean
StandardRank(c) == 1 + Cardinality({d \in Buyers : MeanGreater(d, c)})

\* C7: the Customer Segmentation result has at most Limit rows, one per
\* customer with an order; each row's avg_order_value is the mean of the
\* customer's order totals and its spending_rank is 1 plus the number of
\* customers with a strictly greater mean, so equal means get equal ranks; the
\* rows are in non-decreasing rank order, and no customer left out has a better
\* rank than one in the result.
C7_Segmentation ==
    pc \in AfterQuery4 =>
        LET df == df_customer_segmentation
        IN  /\ Len(df) <= Limit
            /\ \A a, b \in 1..Len(df) : a # b => df[a].customer_id # df[b].customer_id
            /\ \A a \in 1..Len(df) :
                  /\ df[a].customer_id \in Buyers
                  /\ df[a].avg_order_value[1] * Len(OrdersBy(df[a].customer_id))
                        = SpentBy(df[a].customer_id) * df[a].avg_order_value[2]
                  /\ df[a].spending_rank = StandardRank(df[a].customer_id)
            /\ \A a, b \in 1..Len(df) :
                  (~MeanGreater(df[a].customer_id, df[b].customer_id)
                   /\ ~MeanGreater(df[b].customer_id, df[a].customer_id))
                      => df[a].spending_rank = df[b].spending_rank
            /\ \A a, b \in 1..Len(df) : a < b => df[a].spending_rank <= df[b].spending_rank
            /\ \A c \in Buyers \ ResultIds(df) :
                  \A a \in 1..Len(df) : StandardRank(c) >= df[a].spending_rank

\* C7 witness: two customers of equal mean share rank 1, and a third customer
\* of a smaller mean, whose rank is 3, is left out.
C7_Witness ==
    /\ pc = "plot1"
    /\ Len(df_customer_segmentation) = 2
    /\ df_customer_segmentation[1].spending_rank = 1
    /\ df_customer_segmentation[2].spending_rank = 1
    /\ \E c \in Buyers \ ResultIds(df_customer_segmentation) : StandardRank(c) = 3

\* C8, as claimed: in the Top-N Spenders result customers of equal total_spent
\* come in ascending customer_id, among the returned rows and across the cut-off.
C8_TiesByCustomerId ==
    pc \in AfterQuery1 =>
        LET df == df_top_customers
        IN  /\ \A a, b \in 1..Len(df) :
                  (a < b /\ df[a].total_spent = df[b].total_spent)
                      => df[a].customer_id < df[b].customer_id
            /\ \A c \in Buyers \ ResultIds(df) :
                  \A a \in 1..Len(df) :
                      SpentBy(c) = df[a].total_spent => df[a].customer_id < c

====
